---- MODULE Spec2Model ----
(***************************************************************************)
(* Model of the teable MCP bridge server.  Two variants of the server are  *)
(* in the repository:                                                      *)
(*   "env"   src/src/index.ts      tableId supplied by the caller, API key *)
(*                                 from the environment                    *)
(*   "fixed" src/unnamed/part_000  TABLE_ID and TEABLE_API_KEY hard-coded  *)
(* A JavaScript value is a record tagged with t.  A JavaScript string is a *)
(* sequence of pieces whose concatenation is the string: a literal of the  *)
(* source is one piece, data strings hold one UTF-16 code unit per piece.  *)
(***************************************************************************)
EXTENDS Integers, Sequences, FiniteSets, TLC

VARIABLES variant, apiKey, inv, listResults

vars == <<variant, apiKey, inv, listResults>>

\* ------------------------------------------------------------- bounds
MaxInFlight == 3
MaxLists == 2

\* ------------------------------------------------------ JavaScript values
Undefined == [t |-> "undefined"]
Null == [t |-> "null"]
Bool(b) == [t |-> "boolean", b |-> b]
Num(n) == [t |-> "number", n |-> n]
Str(s) == [t |-> "string", s |-> s]
Arr(a) == [t |-> "array", a |-> a]
\* o is the sequence of <<key, value>> own properties, in insertion order;
\* a key is a string: a sequence of code units
Obj(o) == [t |-> "object", o |-> o]
\* a built-in function, such as Array.prototype.filter
Fn(f) == [t |-> "function", f |-> f]

\* the argument names that an array inherits from Array.prototype
ArrayPrototypeKeys == {"filter", "sort"}

\* typeof v
TypeOf(v) ==
  CASE v.t = "undefined" -> "undefined"
    [] v.t = "boolean" -> "boolean"
    [] v.t = "number" -> "number"
    [] v.t = "string" -> "string"
    [] v.t = "function" -> "function"
    [] OTHER -> "object"

\* the code units of the property names the source spells out
KeyChars(k) ==
  CASE k = "tableId" -> <<"t", "a", "b", "l", "e", "I", "d">>
    [] k = "filter" -> <<"f", "i", "l", "t", "e", "r">>
    [] k = "sort" -> <<"s", "o", "r", "t">>
    [] k = "limit" -> <<"l", "i", "m", "i", "t">>

\* 'k' in v, for v an object or an array and k one of the argument names:
\* an own property, or one found on the prototype chain
In(k, v) ==
  \/ v.t = "object" /\ \E i \in 1..Len(v.o) : v.o[i][1] = KeyChars(k)
  \/ v.t = "array" /\ k \in ArrayPrototypeKeys

\* v.k (undefined when v has no such property)
Get(v, k) ==
  IF v.t = "object" /\ In(k, v)
    THEN v.o[CHOOSE i \in 1..Len(v.o) : v.o[i][1] = KeyChars(k)][2]
  ELSE IF v.t = "array" /\ In(k, v) THEN Fn(k)
  ELSE Undefined

\* ToBoolean(v), as used by if (v) and by v ? a : b
Truthy(v) ==
  CASE v.t = "undefined" -> FALSE
    [] v.t = "null" -> FALSE
    [] v.t = "boolean" -> v.b
    [] v.t = "number" -> v.n # 0
    [] v.t = "string" -> v.s # <<>>
    [] OTHER -> TRUE

DigitChars == <<"0", "1", "2", "3", "4", "5", "6", "7", "8", "9">>

RECURSIVE NatChars(_)
NatChars(n) ==
  IF n < 10 THEN <<DigitChars[n + 1]>>
  ELSE NatChars(n \div 10) \o <<DigitChars[(n % 10) + 1]>>

\* Number::toString for an integer
NumChars(n) == IF n < 0 THEN <<"-">> \o NatChars(-n) ELSE NatChars(n)

\* ToString(v) as a template literal ${v} computes it, for the values that
\* reach a template literal here
ToStr(v) ==
  CASE v.t = "string" -> v.s
    [] v.t = "number" -> NumChars(v.n)
    [] v.t = "undefined" -> <<"undefined">>
    [] OTHER -> <<"[object Object]">>

\* ------------------------------------------------------ encodeURIComponent
\* The UTF-16 code units of the model's strings: characters that
\* encodeURIComponent leaves alone, characters it escapes, and one surrogate
\* pair (U+1F600 = D83D DE00) whose halves may also occur alone.
HighSurrogate == "\\uD83D"
LowSurrogate == "\\uDE00"
UnreservedChars == {"a", "b", "f", "l", "s", "t", "X", "1", "-", "_", "."}
EscapedChars == {" ", "/", "?", "&"}

\* the UTF-8 octets of an escaped character, as %XX
PercentEscape(c) ==
  CASE c = " " -> <<"%", "2", "0">>
    [] c = "/" -> <<"%", "2", "F">>
    [] c = "?" -> <<"%", "3", "F">>
    [] c = "&" -> <<"%", "2", "6">>

PairEscape == <<"%", "F", "0", "%", "9", "F", "%", "9", "8", "%", "8", "0">>

UriOk(s) == [ok |-> TRUE, s |-> s]
UriMalformed == [ok |-> FALSE, s |-> <<>>]
UriPrepend(p, r) == IF r.ok THEN UriOk(p \o r.s) ELSE r

\* encodeURIComponent(s): ok = FALSE stands for the URIError it throws on
\* a lone surrogate
RECURSIVE encodeURIComponent(_)
encodeURIComponent(s) ==
  IF s = <<>> THEN UriOk(<<>>)
  ELSE LET c == Head(s) IN
    IF c \in UnreservedChars THEN UriPrepend(<<c>>, encodeURIComponent(Tail(s)))
    ELSE IF c = LowSurrogate THEN UriMalformed
    ELSE IF c = HighSurrogate THEN
      IF Len(s) >= 2 /\ s[2] = LowSurrogate
        THEN UriPrepend(PairEscape, encodeURIComponent(Tail(Tail(s))))
        ELSE UriMalformed
    ELSE UriPrepend(PercentEscape(c), encodeURIComponent(Tail(s)))

\* ------------------------------------------------------------ JSON.stringify
\* QuoteJSONString's escapes: the quote, the backslash, the control
\* characters of the model's strings, and a surrogate that is not part of a
\* pair (as \uxxxx, in lower case)
RECURSIVE QuoteChars(_)
QuoteChars(s) ==
  IF s = <<>> THEN <<>>
  ELSE LET c == Head(s) IN
    IF c = HighSurrogate /\ Len(s) >= 2 /\ s[2] = LowSurrogate
      THEN <<c, s[2]>> \o QuoteChars(Tail(Tail(s)))
    ELSE (CASE c = "\"" -> <<"\\", "\"">>
            [] c = "\\" -> <<"\\", "\\">>
            [] c = "\n" -> <<"\\", "n">>
            [] c = "\t" -> <<"\\", "t">>
            [] c = "\r" -> <<"\\", "r">>
            [] c = "\f" -> <<"\\", "f">>
            [] c = HighSurrogate -> <<"\\", "u", "d", "8", "3", "d">>
            [] c = LowSurrogate -> <<"\\", "u", "d", "e", "0", "0">>
            [] OTHER -> <<c>>) \o QuoteChars(Tail(s))

QuoteJSONString(s) == <<"\"">> \o QuoteChars(s) \o <<"\"">>

RECURSIVE JoinWith(_, _)
JoinWith(parts, sep) ==
  IF parts = <<>> THEN <<>>
  ELSE IF Len(parts) = 1 THEN parts[1]
  ELSE parts[1] \o sep \o JoinWith(Tail(parts), sep)

\* SerializeJSONProperty: gap is the indentation unit (<<>> for none),
\* indent the current indentation
RECURSIVE SerializeJSON(_, _, _)
SerializeJSON(v, gap, indent) ==
  LET inner == indent \o gap
      sep == IF gap = <<>> THEN <<",">> ELSE <<",", "\n">> \o inner
      Wrap(open, parts, close) ==
        IF parts = <<>> THEN <<open, close>>
        ELSE IF gap = <<>> THEN <<open>> \o JoinWith(parts, sep) \o <<close>>
        ELSE <<open, "\n">> \o inner \o JoinWith(parts, sep)
               \o <<"\n">> \o indent \o <<close>>
  IN CASE v.t = "null" -> <<"n", "u", "l", "l">>
       [] v.t = "boolean" ->
            IF v.b THEN <<"t", "r", "u", "e">> ELSE <<"f", "a", "l", "s", "e">>
       [] v.t = "number" -> NumChars(v.n)
       [] v.t = "string" -> QuoteJSONString(v.s)
       [] v.t = "array" ->
            Wrap("[", [i \in 1..Len(v.a) |-> SerializeJSON(v.a[i], gap, inner)], "]")
       [] v.t = "object" ->
            Wrap("{",
                 [i \in 1..Len(v.o) |->
                    QuoteJSONString(v.o[i][1])
                      \o (IF gap = <<>> THEN <<":">> ELSE <<":", " ">>)
                      \o SerializeJSON(v.o[i][2], gap, inner)],
                 "}")

RECURSIVE Spaces(_)
Spaces(n) == IF n = 0 THEN <<>> ELSE <<" ">> \o Spaces(n - 1)

\* JSON.stringify(v, null, space): a string, or undefined for undefined
JSONstringify(v, space) ==
  IF v.t = "undefined" THEN Undefined
  ELSE Str(SerializeJSON(v, Spaces(space), <<>>))

\* ------------------------------------------------------------- tool catalog
\* The one descriptor of the tools array.  The env variant declares and
\* requires tableId, the fixed variant does neither.
ToolDescriptor ==
  [name |-> "query_teable",
   description |-> "Fragt Daten aus einer Teable-Datenbanktabelle ab",
   inputSchema |->
     [type |-> "object",
      properties |->
        IF variant = "env"
          THEN [tableId |-> [type |-> "string"],
                filter |-> [type |-> "string"],
                sort |-> [type |-> "string"],
                limit |-> [type |-> "number", minimum |-> 1]]
          ELSE [filter |-> [type |-> "string"],
                sort |-> [type |-> "string"],
                limit |-> [type |-> "number", minimum |-> 1]],
      required |-> IF variant = "env" THEN <<"tableId">> ELSE <<>>]]

\* a tools array that grows once a call has completed
ListToolsGrowing ==
  IF \E i \in DOMAIN inv : inv[i].pc = "done"
    THEN <<ToolDescriptor, ToolDescriptor>>
    ELSE <<ToolDescriptor>>

\* the answer of the ListTools handler
ListTools == <<ToolDescriptor>>

\* ---------------------------------------------------------------- validator
\* the validator without its test of limit
isValidNoLimitCheck(args) ==
  /\ TypeOf(args) = "object"
  /\ args.t # "null"
  /\ In("tableId", args) /\ TypeOf(Get(args, "tableId")) = "string"
  /\ (~In("filter", args) \/ TypeOf(Get(args, "filter")) = "string")
  /\ (~In("sort", args) \/ TypeOf(Get(args, "sort")) = "string")

\* isValidQueryTeableArgs of src/src/index.ts
isValidQueryTeableArgs(args) ==
  /\ TypeOf(args) = "object"
  /\ args.t # "null"
  /\ In("tableId", args) /\ TypeOf(Get(args, "tableId")) = "string"
  /\ (~In("filter", args) \/ TypeOf(Get(args, "filter")) = "string")
  /\ (~In("sort", args) \/ TypeOf(Get(args, "sort")) = "string")
  /\ (~In("limit", args) \/ TypeOf(Get(args, "limit")) = "number")

\* isValidQueryTeableArgs of src/unnamed/part_000
isValidQueryTeableArgsFixed(args) ==
  /\ TypeOf(args) = "object"
  /\ args.t # "null"
  /\ (~In("filter", args) \/ TypeOf(Get(args, "filter")) = "string")
  /\ (~In("sort", args) \/ TypeOf(Get(args, "sort")) = "string")
  /\ (~In("limit", args) \/ TypeOf(Get(args, "limit")) = "number")

\* the validator the running variant calls
ArgsValid(args) ==
  IF variant = "env" THEN isValidQueryTeableArgs(args)
  ELSE isValidQueryTeableArgsFixed(args)

\* --------------------------------------------------------------- the handler
\* the dispatch test with the tool name misspelt
UnknownToolTypo(name) == name # "query_table"

\* request.params.name !== 'query_teable'
UnknownTool(name) == name # "query_teable"

McpError(code, message) ==
  [kind |-> "throw", error |-> [name |-> "McpError", code |-> code, message |-> message]]

\* a rejection of axios.get that is not an axios error, rethrown by the catch
Rethrow(e) ==
  [kind |-> "throw", error |-> [name |-> e.name, code |-> "", message |-> e.message]]

\* TABLE_ID of the fixed variant
TABLE_ID == <<"t", "b", "l", "X", "X", "X">>
\* TEABLE_API_KEY of the fixed variant
TEABLE_API_KEY == Str(<<"teable_XXX">>)

\* the table identifier the request is built for
TableId(args) == IF variant = "env" THEN Get(args, "tableId").s ELSE TABLE_ID

\* a params object kept at module level: it still holds what an earlier
\* invocation put into it
NewParamsShared ==
  LET S == {inv[j].sent[1].config.params :
              j \in {k \in DOMAIN inv : inv[k].sent # <<>>}}
  IN IF S = {} THEN <<>>
     ELSE CHOOSE q \in S : \A r \in S : Len(r) <= Len(q)

\* const params = {}: a fresh object per invocation
NewParams == <<>>

\* params after  if (v) { params.k = v; }
SetIfTruthy(params, k, v) ==
  IF Truthy(v)
    THEN (IF \E i \in 1..Len(params) : params[i][1] = k
            THEN [i \in 1..Len(params) |->
                    IF params[i][1] = k THEN <<k, v>> ELSE params[i]]
            ELSE Append(params, <<k, v>>))
    ELSE params

\* params as the handler fills it from the destructured arguments
BuildParams(args) ==
  SetIfTruthy(
    SetIfTruthy(
      SetIfTruthy(NewParams, "filter", Get(args, "filter")),
      "sort", Get(args, "sort")),
    "limit", Get(args, "limit"))

\* the config object given to axios.get
BuildConfig(args) ==
  [headers |-> [Authorization |-> <<"Bearer ">> \o ToStr(apiKey),
                Accept |-> <<"application/json">>],
   params |-> BuildParams(args)]

baseUrl == <<"https://acdp.mountai.co/api/table">>

\* the GET the handler issues: ok = FALSE when encodeURIComponent throws
BuildRequest(args) ==
  LET enc == encodeURIComponent(TableId(args)) IN
    [ok |-> enc.ok,
     method |-> "GET",
     url |-> baseUrl \o <<"/">> \o enc.s \o <<"/record">>,
     config |-> BuildConfig(args)]

\* the success result with the body serialized without indentation
SuccessResultCompact(args, response) ==
  [kind |-> "return",
   result |->
     [content |->
        <<[type |-> "text",
           text |-> <<"Daten erfolgreich aus Teable-Tabelle ">> \o TableId(args)
                      \o <<" abgefragt:", "\n">>
                      \o ToStr(JSONstringify(response.data, 0))]>>]]

\* the value returned when axios.get resolves
SuccessResult(args, response) ==
  [kind |-> "return",
   result |->
     [content |->
        <<[type |-> "text",
           text |-> <<"Daten erfolgreich aus Teable-Tabelle ">> \o TableId(args)
                      \o <<" abgefragt:", "\n">>
                      \o ToStr(JSONstringify(response.data, 2))]>>]]

\* error.response?.data ? JSON.stringify(error.response.data) : error.message
ErrorDetail(error) ==
  IF error.hasResponse /\ Truthy(error.data)
    THEN ToStr(JSONstringify(error.data, 0))
    ELSE error.message

\* what encodeURIComponent throws inside the try block
URIError ==
  [kind |-> "rejected", isAxiosError |-> FALSE, hasResponse |-> FALSE,
   data |-> Undefined, name |-> "URIError", message |-> <<"URI malformed">>]

\* a catch block that turns every error into a result
CatchAll(error) ==
  [kind |-> "return",
   result |->
     [content |->
        <<[type |-> "text",
           text |-> <<"Fehler bei der Abfrage der Teable-Datenbank: ">>
                      \o ErrorDetail(error)]>>,
      isError |-> TRUE]]

\* the catch block: an axios error becomes a result, anything else is rethrown
CatchResult(error) ==
  IF error.isAxiosError
    THEN [kind |-> "return",
          result |->
            [content |->
               <<[type |-> "text",
                  text |-> <<"Fehler bei der Abfrage der Teable-Datenbank: ">>
                             \o ErrorDetail(error)]>>,
             isError |-> TRUE]]
    ELSE Rethrow(error)

\* ------------------------------------------------------------ invocations
NoRequest == [name |-> "", arguments |-> Undefined]
NoHttp == [kind |-> "none"]

Idle == [pc |-> "idle", request |-> NoRequest, sent |-> <<>>,
         http |-> NoHttp, reported |-> <<>>]

Finished(request, sent, http, outcome) ==
  [pc |-> "done", request |-> request, sent |-> sent,
   http |-> http, reported |-> <<outcome>>]

\* the handler from its entry to  await axios.get(...)
Start(request) ==
  IF UnknownTool(request.name)
    THEN Finished(request, <<>>, NoHttp,
                  McpError("MethodNotFound", <<"Unbekanntes Tool: ", request.name>>))
  ELSE IF ~ArgsValid(request.arguments)
    THEN Finished(request, <<>>, NoHttp,
                  McpError("InvalidParams", <<"Ungültige Argumente für query_teable">>))
  ELSE LET get == BuildRequest(request.arguments) IN
    IF ~get.ok
      THEN Finished(request, <<>>, NoHttp, CatchResult(URIError))
      ELSE [pc |-> "awaiting", request |-> request,
            sent |-> <<[method |-> get.method, url |-> get.url, config |-> get.config]>>,
            http |-> NoHttp, reported |-> <<>>]

\* a handler that issues the GET a second time after an axios error
SettleRetry(rec, http) ==
  IF http.kind = "resolved"
    THEN Finished(rec.request, rec.sent, http,
                  SuccessResult(rec.request.arguments, http))
  ELSE IF http.isAxiosError /\ Len(rec.sent) < 2
    THEN [rec EXCEPT !.sent = Append(rec.sent, rec.sent[1])]
  ELSE Finished(rec.request, rec.sent, http, CatchResult(http))

\* the handler from the settling of axios.get to its return or throw
Settle(rec, http) ==
  IF http.kind = "resolved"
    THEN Finished(rec.request, rec.sent, http,
                  SuccessResult(rec.request.arguments, http))
    ELSE Finished(rec.request, rec.sent, http, CatchResult(http))

\* ------------------------------------------------------------------ inputs
Absent == [t |-> "absent"]

\* an arguments object holding the properties that are not Absent
MkArgs(tableId, filter, sort, limit) ==
  Obj(SelectSeq(<< <<KeyChars("tableId"), tableId>>, <<KeyChars("filter"), filter>>,
                   <<KeyChars("sort"), sort>>, <<KeyChars("limit"), limit>> >>,
                LAMBDA p : p[2] # Absent))

TableIdValues ==
  {Absent, Str(<<"t", "b", "l", "1">>), Str(<<"a", "/", "b", " ", "?">>),
   Str(<<HighSurrogate, LowSurrogate>>), Str(<<"t", HighSurrogate>>), Num(7)}
FilterValues == {Absent, Str(<<>>), Str(<<"f">>), Num(5)}
SortValues == {Absent, Str(<<>>), Str(<<"s">>), Null}
LimitValues == {Absent, Num(0), Num(1), Num(5), Num(-1), Str(<<"f", "i", "v", "e">>)}

ArgumentValues ==
  {Undefined, Null, Str(<<"x">>), Arr(<<>>)}
    \cup {MkArgs(tid, f, s, l) : tid \in TableIdValues, f \in FilterValues,
                                 s \in SortValues, l \in LimitValues}

ToolNames == {"query_teable", "query_table"}

Requests == [name : ToolNames, arguments : ArgumentValues]

\* the requests of the concurrent specification
ConcRequests ==
  {[name |-> "query_teable",
    arguments |-> MkArgs(Str(<<"t", "b", "l", "1">>), Str(<<"f">>), Absent, Num(5))],
   [name |-> "query_teable",
    arguments |-> MkArgs(Str(<<"t", "b", "l", "1">>), Absent, Absent, Absent)],
   [name |-> "query_teable",
    arguments |-> MkArgs(Absent, Absent, Absent, Str(<<"f", "i", "v", "e">>))],
   [name |-> "list_tables",
    arguments |-> MkArgs(Str(<<"t", "b", "l", "1">>), Absent, Absent, Absent)]}

KeyRecords == <<"r", "e", "c", "o", "r", "d", "s">>
\* {"records":[]}
RecordsEmpty == Obj(<< <<KeyRecords, Arr(<<>>)>> >>)
\* {"records":[{"id":"r1","n\"":12}]}: the second name holds a quote
RecordsOne ==
  Obj(<< <<KeyRecords,
           Arr(<< Obj(<< <<<<"i", "d">>, Str(<<"r", "1">>)>>,
                         <<<<"n", "\"">>, Num(12)>> >>) >>)>> >>)
NotFound == Obj(<< <<<<"e", "r", "r", "o", "r">>, Str(<<"n", "o", "t", " ", "f", "o", "u", "n", "d">>)>> >>)

Resolved(data) ==
  [kind |-> "resolved", isAxiosError |-> FALSE, hasResponse |-> TRUE,
   data |-> data, name |-> "", message |-> <<>>]
Rejected(isAxiosError, hasResponse, data, name, message) ==
  [kind |-> "rejected", isAxiosError |-> isAxiosError, hasResponse |-> hasResponse,
   data |-> data, name |-> name, message |-> message]

\* 2xx bodies as axios hands them over: parsed JSON, or the text itself
SuccessData ==
  {RecordsEmpty, RecordsOne, Arr(<<Num(1), Num(2)>>), Str(<<>>),
   Str(<<"o", "\"", "\n", HighSurrogate>>), Null, Num(0)}
\* non-2xx bodies
ErrorData ==
  {NotFound, Str(<<>>), Str(<<"b", "a", "d">>), Null, Num(0), Bool(FALSE), Arr(<<>>)}

HttpOutcomes ==
  {Resolved(d) : d \in SuccessData}
    \cup {Rejected(TRUE, TRUE, d, "AxiosError",
                   <<"Request failed with status code 404">>) : d \in ErrorData}
    \cup {Rejected(TRUE, FALSE, Undefined, "AxiosError", <<"Network Error">>),
          Rejected(TRUE, FALSE, Undefined, "AxiosError", <<"timeout of 0ms exceeded">>),
          Rejected(FALSE, FALSE, Undefined, "TypeError", <<"unexpected">>)}

ConcHttpOutcomes ==
  {Resolved(RecordsEmpty),
   Rejected(TRUE, TRUE, NotFound, "AxiosError",
            <<"Request failed with status code 404">>),
   Rejected(FALSE, FALSE, Undefined, "TypeError", <<"unexpected">>)}

\* ----------------------------------------------------------------- actions
\* a tools/call request arrives and the handler runs up to its await
CallTool(i, request) ==
  /\ inv[i].pc = "idle"
  /\ inv' = [inv EXCEPT ![i] = Start(request)]
  /\ UNCHANGED <<variant, apiKey, listResults>>

\* the HTTP call of invocation i settles and the handler runs to its end
HttpSettle(i, http) ==
  /\ inv[i].pc = "awaiting"
  /\ inv' = [inv EXCEPT ![i] = Settle(inv[i], http)]
  /\ UNCHANGED <<variant, apiKey, listResults>>

\* a tools/list request is answered
ListToolsCall ==
  /\ Len(listResults) < MaxLists
  /\ listResults' = Append(listResults, ListTools)
  /\ UNCHANGED <<variant, apiKey, inv>>

InitConfig ==
  /\ variant \in {"env", "fixed"}
  /\ apiKey \in (IF variant = "env"
                   THEN {Undefined, Str(<<"teable_key">>)}
                   ELSE {TEABLE_API_KEY})
  /\ listResults = <<>>

\* one invocation at a time, every request and every HTTP outcome
Init == InitConfig /\ inv = [i \in {1} |-> Idle]

Next ==
  \/ \E i \in DOMAIN inv, request \in Requests : CallTool(i, request)
  \/ \E i \in DOMAIN inv, http \in HttpOutcomes : HttpSettle(i, http)
  \/ ListToolsCall

Spec == Init /\ [][Next]_vars

\* up to MaxInFlight invocations in flight, arriving and settling in any order
InitConc == InitConfig /\ inv = [i \in 1..MaxInFlight |-> Idle]

NextConc ==
  \/ \E i \in DOMAIN inv, request \in ConcRequests : CallTool(i, request)
  \/ \E i \in DOMAIN inv, http \in ConcHttpOutcomes : HttpSettle(i, http)
  \/ ListToolsCall

SpecConc == InitConc /\ [][NextConc]_vars

\* ================================================================== claims
Range(f) == {f[i] : i \in DOMAIN f}

\* s occurs in text as a contiguous run of pieces
Contains(text, s) ==
  \E k \in 0..(Len(text) - Len(s)) : SubSeq(text, k + 1, k + Len(s)) = s

Active == {i \in DOMAIN inv : inv[i].pc # "idle"}
Done == {i \in DOMAIN inv : inv[i].pc = "done"}
ArgsOf(i) == inv[i].request.arguments
Outcome(i) == inv[i].reported[1]

ThrewMcpError(i, code) ==
  /\ inv[i].pc = "done"
  /\ Len(inv[i].reported) = 1
  /\ Outcome(i).kind = "throw"
  /\ Outcome(i).error.name = "McpError"
  /\ Outcome(i).error.code = code

\* the invocation got past the dispatch and validation steps
Passed(i) == inv[i].request.name = "query_teable" /\ ArgsValid(ArgsOf(i))

\* the advertised input schema, as a client reads it from tools/list
Schema == ListTools[1].inputSchema
MissingRequired(args) == \E k \in Range(Schema.required) : ~In(k, args)
WrongType(args) ==
  /\ args.t = "object"
  /\ \E k \in DOMAIN Schema.properties :
       In(k, args) /\ Get(args, k).t # Schema.properties[k].type
BelowMinimum(args) ==
  /\ args.t = "object"
  /\ \E k \in DOMAIN Schema.properties :
       /\ In(k, args) /\ Get(args, k).t = "number"
       /\ "minimum" \in DOMAIN Schema.properties[k]
       /\ Get(args, k).n < Schema.properties[k].minimum
ConformsToSchema(args) ==
  /\ args.t = Schema.type
  /\ ~MissingRequired(args)
  /\ ~WrongType(args)
  /\ ~BelowMinimum(args)

\* C1: a call whose name is not 'query_teable' ends with the MethodNotFound
\* protocol error and issues no HTTP request, whatever its arguments are.
C1_UnknownToolRejected ==
  \A i \in Active :
    inv[i].request.name # "query_teable"
      => ThrewMcpError(i, "MethodNotFound") /\ inv[i].sent = <<>>

\* an unknown tool name was called with arguments the validator accepts
C1_Witness ==
  \E i \in Done :
    /\ inv[i].request.name = "query_table"
    /\ ArgsValid(ArgsOf(i))
    /\ ThrewMcpError(i, "MethodNotFound")

\* C2: a call of 'query_teable' whose arguments miss a required field or
\* hold a declared field of the wrong type ends with the InvalidParams
\* protocol error and issues no HTTP request.
C2_InvalidArgumentsRejected ==
  \A i \in Active :
    /\ inv[i].request.name = "query_teable"
    /\ (MissingRequired(ArgsOf(i)) \/ WrongType(ArgsOf(i)))
    => ThrewMcpError(i, "InvalidParams") /\ inv[i].sent = <<>>

\* limit: "five" beside otherwise valid arguments was rejected
C2_Witness ==
  \E i \in Done :
    /\ inv[i].request.name = "query_teable"
    /\ Get(ArgsOf(i), "limit") = Str(<<"f", "i", "v", "e">>)
    /\ Get(ArgsOf(i), "tableId") = Str(<<"t", "b", "l", "1">>)
    /\ ~In("filter", ArgsOf(i)) /\ ~In("sort", ArgsOf(i))
    /\ ThrewMcpError(i, "InvalidParams")

\* C3: every arguments value the validator accepts conforms to the
\* advertised inputSchema (an object, required fields present, declared
\* types, limit >= its minimum 1), so no request is built from arguments
\* that violate the schema.
C3_AcceptedArgsConformToSchema ==
  \A i \in Active :
    (Passed(i) \/ inv[i].sent # <<>>) => ConformsToSchema(ArgsOf(i))

\* the failed response has a body
CarriesBody(http) ==
  http.hasResponse /\ http.data \notin {Undefined, Null, Str(<<>>)}

IsErrorResult(o) ==
  /\ o.kind = "return"
  /\ "isError" \in DOMAIN o.result
  /\ o.result.isError = TRUE
  /\ Len(o.result.content) = 1
  /\ o.result.content[1].type = "text"

\* C4: when the GET fails with an axios error the handler returns isError =
\* true with one text block; the text holds the serialized error body
\* whenever the failed response carries a body, and the transport message
\* only when there is no body.
C4_HttpFailureBecomesErrorResult ==
  \A i \in Done :
    (inv[i].http.kind = "rejected" /\ inv[i].http.isAxiosError)
      => /\ IsErrorResult(Outcome(i))
         /\ LET text == Outcome(i).result.content[1].text
                http == inv[i].http
            IN IF CarriesBody(http)
                 THEN Contains(text, SerializeJSON(http.data, <<>>, <<>>))
                 ELSE Contains(text, http.message)

\* JSON.stringify(body, null, 2) of {"records":[]} and of a nested body,
\* written out
PrettyRecordsEmpty ==
  <<"{", "\n", " ", " ", "\"", "r", "e", "c", "o", "r", "d", "s", "\"", ":", " ",
    "[", "]", "\n", "}">>
PrettyRecordsOne ==
  <<"{", "\n",
    " ", " ", "\"", "r", "e", "c", "o", "r", "d", "s", "\"", ":", " ", "[", "\n",
    " ", " ", " ", " ", "{", "\n",
    " ", " ", " ", " ", " ", " ", "\"", "i", "d", "\"", ":", " ", "\"", "r", "1", "\"", ",", "\n",
    " ", " ", " ", " ", " ", " ", "\"", "n", "\\", "\"", "\"", ":", " ", "1", "2", "\n",
    " ", " ", " ", " ", "}", "\n",
    " ", " ", "]", "\n",
    "}">>

\* C5: when the GET succeeds the handler returns a result without isError
\* whose content is one text block holding the body pretty-printed with an
\* indentation of two.
C5_HttpSuccessBecomesResult ==
  \A i \in Done :
    inv[i].http.kind = "resolved"
      => LET o == Outcome(i) IN
           /\ Len(inv[i].reported) = 1
           /\ o.kind = "return"
           /\ "isError" \notin DOMAIN o.result
           /\ Len(o.result.content) = 1
           /\ o.result.content[1].type = "text"
           /\ Contains(o.result.content[1].text,
                       SerializeJSON(inv[i].http.data, <<" ", " ">>, <<>>))
           /\ (inv[i].http.data = RecordsEmpty
                 => Contains(o.result.content[1].text, PrettyRecordsEmpty))
           /\ (inv[i].http.data = RecordsOne
                 => Contains(o.result.content[1].text, PrettyRecordsOne))

\* a call got HTTP 200 with body {"records":[]}
C5_Witness ==
  \E i \in Done :
    /\ inv[i].http = Resolved(RecordsEmpty)
    /\ Outcome(i).kind = "return"

ParamHas(params, k) == \E j \in 1..Len(params) : params[j][1] = k
ParamGet(params, k) == params[CHOOSE j \in 1..Len(params) : params[j][1] = k][2]

\* C6: the GET of a validated call targets <base>/<tableId>/record, and each
\* of filter, sort, limit is a query parameter with the request's value
\* exactly when the request holds it, for every value the validator accepts.
C6_PresentOptionsBecomeParams ==
  \A i \in Active :
    inv[i].sent # <<>>
      => LET get == inv[i].sent[1]
             args == ArgsOf(i)
         IN /\ get.method = "GET"
            /\ get.url = baseUrl \o <<"/">>
                           \o encodeURIComponent(TableId(args)).s \o <<"/record">>
            /\ \A k \in {"filter", "sort", "limit"} :
                 IF In(k, args)
                   THEN /\ ParamHas(get.config.params, k)
                        /\ ParamGet(get.config.params, k) = Get(args, k)
                   ELSE ~ParamHas(get.config.params, k)

\* building the request of invocation i throws: its tableId is not well-formed
BuildThrows(i) == ~encodeURIComponent(TableId(ArgsOf(i))).ok

\* C7 as stated: a call that passes dispatch and validation issues exactly
\* one HTTP request and reports exactly one outcome; a rejected call issues
\* none.
C7_ExactlyOneRequest ==
  \A i \in Done :
    /\ Len(inv[i].reported) = 1
    /\ Len(inv[i].sent) = (IF Passed(i) THEN 1 ELSE 0)

\* C7 amended: every call issues at most one HTTP request and reports
\* exactly one outcome; a call that passes dispatch and validation issues
\* exactly one unless building the request throws (then none, and the
\* URIError is its outcome); a rejected call issues none.
C7_AtMostOneRequest ==
  \A i \in Active :
    /\ Len(inv[i].sent) <= 1
    /\ Len(inv[i].reported) = (IF inv[i].pc = "done" THEN 1 ELSE 0)
    /\ (~Passed(i) => inv[i].sent = <<>>)
    /\ (Passed(i) /\ ~BuildThrows(i) => Len(inv[i].sent) = 1)
    /\ (Passed(i) /\ BuildThrows(i)
          => /\ inv[i].sent = <<>>
             /\ inv[i].pc = "done"
             /\ Outcome(i).kind = "throw"
             /\ Outcome(i).error.name = "URIError")

\* a validated call whose GET failed has ended with one request issued
C7_Witness ==
  \E i \in Done :
    /\ Passed(i)
    /\ inv[i].http.kind = "rejected" /\ inv[i].http.isAxiosError
    /\ Len(inv[i].sent) = 1
    /\ Len(inv[i].reported) = 1

\* C8: every tools/list answer is the same sequence of one descriptor,
\* however many list and call requests came before, and the descriptor's
\* name is the one name the call handler does not reject as unknown.
C8_ListToolsFixed ==
  \A k \in 1..Len(listResults) :
    /\ Len(listResults[k]) = 1
    /\ listResults[k] = listResults[1]
    /\ listResults[k][1].name = "query_teable"
    /\ \A i \in Active :
         inv[i].request.name = listResults[k][1].name
           <=> ~ThrewMcpError(i, "MethodNotFound")

\* two lists were answered around an accepted and an unknown call
C8_Witness ==
  /\ Len(listResults) >= 2
  /\ \E i, j \in Done :
       /\ inv[i].request.name = "query_teable" /\ Outcome(i).kind = "return"
       /\ ThrewMcpError(j, "MethodNotFound")

\* the failure of invocation i that is not an HTTP failure
NonHttpFailure(i) ==
  \/ inv[i].http.kind = "rejected" /\ ~inv[i].http.isAxiosError
  \/ inv[i].http.kind = "none" /\ BuildThrows(i)

\* C9: a validated call that fails with an error that is not an axios error
\* throws that error out of the handler; no result is returned for it.
C9_OtherErrorsPropagate ==
  \A i \in Done :
    (Passed(i) /\ NonHttpFailure(i))
      => /\ Len(inv[i].reported) = 1
         /\ Outcome(i).kind = "throw"
         /\ Outcome(i).error.name =
              (IF inv[i].http.kind = "none" THEN "URIError" ELSE inv[i].http.name)

\* axios.get rejected with an error that is not an axios error
C9_Witness ==
  \E i \in Done :
    /\ Passed(i)
    /\ inv[i].http.kind = "rejected" /\ ~inv[i].http.isAxiosError
    /\ Outcome(i).kind = "throw"

\* C10: whatever else is in flight and in whatever order calls arrive and
\* settle, the request a call issues depends on its own request alone and
\* its outcome on its own request and HTTP outcome alone: two invocations
\* that agree on these agree on what they issue and report.
C10_InvocationsIndependent ==
  \A i, j \in Active :
    inv[i].request = inv[j].request
      => /\ inv[i].sent = inv[j].sent
         /\ (inv[i].pc = "done" /\ inv[j].pc = "done" /\ inv[i].http = inv[j].http
               => inv[i].reported = inv[j].reported)

\* two calls with the same request and HTTP outcome ended around a third,
\* different call that is still in flight
C10_Witness ==
  \E i, j, k \in DOMAIN inv :
    /\ i # j
    /\ inv[i].pc = "done" /\ inv[j].pc = "done"
    /\ inv[i].request = inv[j].request
    /\ inv[i].http = inv[j].http /\ inv[i].http.kind = "rejected"
    /\ inv[k].pc = "awaiting"
    /\ inv[k].request # inv[i].request

====
